---- MODULE Spec2Model ----
(***************************************************************************)
(* Admission core of reana-server: the disk quota guard, the publication   *)
(* of workflow submissions under a scheduling policy, the bounded-retry    *)
(* admission loop, and the derivation of workspace retention rules.        *)
(*                                                                         *)
(* Three specifications share the module:                                  *)
(*   QuotaSpec      concurrent guarded actions on one tenant's disk quota  *)
(*   Spec           the admission loop calling publish_workflow_submission *)
(*   RetentionSpec  get_workspace_retention_rules on bounded rule maps     *)
(* Each specification keeps the variables of the other two at their idle   *)
(* values.                                                                 *)
(***************************************************************************)
EXTENDS Integers, Sequences, FiniteSets, TLC

VARIABLES
    \* --- disk quota (UserResource row of one tenant, and its callers)
    quota_limit,      \* UserResource.quota_limit, 0 = unlimited
    quota_used,       \* UserResource.quota_used
    qpc,              \* per caller: "idle", "passed", "rejected", "done"
    qbytes,           \* per caller: the bytes_to_sum of its guarded action
    guardLog,         \* per caller: what its guard call read and answered
    \* --- admission
    policy,           \* REANA_WORKFLOW_SCHEDULING_POLICY of the deployment
    workflows,        \* the Workflow rows: status, specification, complexity
    estimatorCalls,   \* per workflow: calls of estimate_complexity so far
    pubCalls,         \* per workflow: calls of the submission publisher so far
    published,        \* messages the publisher acknowledged
    lstate,           \* per submission: state in the admission loop
    retry_count,      \* per submission: the loop's retry counter
    checks,           \* per submission: readiness checks made so far
    firstReady,       \* per submission: attempt of the first "ready" answer, 0 = none
    pubErrors,        \* per submission: publisher calls that returned an error
    lastCall,         \* the most recent call of publish_workflow_submission
    lastProbe,        \* the readiness probe's answer on the most recent attempt
    stop_requested,   \* the submissions an external "stop" signal was sent for
    \* --- retention rules
    retention_days,   \* the explicit rule map handed to the resolver
    resolved,         \* what the resolver answered for it
    \* --- restart (clone_workflow)
    clone_in,         \* the call's arguments and the store before the call
    clone_db,         \* the store: the clone's row and rules, the original's rules
    clone_pc,         \* where the call stands
    clone_local,      \* the call's locals: retention_rules, cloned_workflow
    clone_result,     \* how the call ended
    \* --- readiness probe
    probe_in,         \* the configured check level, the cluster state, the submission
    probe_out,        \* the probe's answer
    \* --- input filtering (filter_input_files)
    filter_in,        \* the workspace before the call and the declared inputs
    workspace,        \* the content of the workspace directory
    filter_result     \* how the call ended

quotaVars == <<quota_limit, quota_used, qpc, qbytes, guardLog>>
admVars == <<policy, workflows, estimatorCalls, pubCalls, published, lstate,
             retry_count, checks, firstReady, pubErrors, lastCall, lastProbe,
             stop_requested>>
retVars == <<retention_days, resolved>>
cloneVars == <<clone_in, clone_db, clone_pc, clone_local, clone_result>>
probeVars == <<probe_in, probe_out>>
filterVars == <<filter_in, workspace, filter_result>>
vars == <<quotaVars, admVars, retVars, cloneVars, probeVars, filterVars>>

NoValue == "none"

(***************************************************************************)
(* Bounds of the model.                                                    *)
(***************************************************************************)
MaxQuota == 3
MaxBytes == 2
MaxJobMemory == 3
MaxPriority == 1
MaxRules == 2
MaxPredecessorRules == 2
MaxDeclaredFiles == 2
MaxRunning == 2
MaxAvailableMemory == 3
ConcurrencyCeiling == 2
DefaultJobMemory == 2

(***************************************************************************)
(* Configuration (src/reana_server/config.py). The numeric options are     *)
(* read from the environment; the model fixes small values for them.       *)
(***************************************************************************)
REANA_WORKFLOW_SCHEDULING_POLICIES == {"fifo", "balanced"}
REANA_SCHEDULER_REQUEUE_COUNT == 2
REANA_KUBERNETES_JOBS_MAX_USER_MEMORY_LIMIT == 2
WORKSPACE_RETENTION_PERIOD == 3
DEFAULT_WORKSPACE_RETENTION_RULE == "**/*"

(***************************************************************************)
(* QUOTA GUARD                                                             *)
(***************************************************************************)
Callers == {"c1", "c2"}

\* prevent_disk_quota_excess: TRUE when the call returns, FALSE when it raises
\* REANAQuotaExceededError. It reads the row and writes nothing.
MutGuardOffByOne(limit, used, bytes_to_sum) ==
    ~(limit > 0 /\ used + bytes_to_sum >= limit)

MutGuardIgnoresBytes(limit, used, bytes_to_sum) ==
    ~(limit > 0 /\ used > limit)

prevent_disk_quota_excess(limit, used, bytes_to_sum) ==
    ~(limit > 0 /\ used + bytes_to_sum > limit)

NoGuardCall == [called |-> FALSE, limit |-> 0, used |-> 0, bytes |-> 0, passed |-> TRUE]

QuotaIdle ==
    /\ quota_limit = 0
    /\ quota_used = 0
    /\ qpc = [c \in Callers |-> "idle"]
    /\ qbytes = [c \in Callers |-> 0]
    /\ guardLog = [c \in Callers |-> NoGuardCall]

\* One caller runs the guard for an action that will add b bytes.
Guard(c, b) ==
    /\ qpc[c] = "idle"
    /\ LET ok == prevent_disk_quota_excess(quota_limit, quota_used, b)
       IN /\ qpc' = [qpc EXCEPT ![c] = IF ok THEN "passed" ELSE "rejected"]
          /\ guardLog' = [guardLog EXCEPT ![c] =
                 [called |-> TRUE, limit |-> quota_limit, used |-> quota_used,
                  bytes |-> b, passed |-> ok]]
    /\ qbytes' = [qbytes EXCEPT ![c] = b]
    /\ UNCHANGED <<quota_limit, quota_used, admVars, retVars, cloneVars, probeVars, filterVars>>

\* The caller whose guard passed commits its resources and adds them to
\* quota_used.
Commit(c) ==
    /\ qpc[c] = "passed"
    /\ quota_used' = quota_used + qbytes[c]
    /\ qpc' = [qpc EXCEPT ![c] = "done"]
    /\ UNCHANGED <<quota_limit, qbytes, guardLog, admVars, retVars, cloneVars, probeVars, filterVars>>

(***************************************************************************)
(* PUBLICATION OF A WORKFLOW SUBMISSION                                    *)
(***************************************************************************)
Workflows == {"w1", "w2"}

\* The scheduling policies a deployment may be configured with: the two
\* valid ones and one that is not in REANA_WORKFLOW_SCHEDULING_POLICIES.
ConfiguredPolicies == REANA_WORKFLOW_SCHEDULING_POLICIES \cup {"lifo"}

\* A Workflow row. The specification is abstracted to the peak job memory it
\* declares, which is what the complexity estimate is made of; a complexity
\* of <<>> is the NULL of a row whose complexity was never computed.
NewWorkflow(mem) ==
    [status |-> "created", reana_specification |-> mem, complexity |-> <<>>]

\* estimate_complexity(type, specification): a pure function of the
\* specification.
estimate_complexity(reana_specification) == <<reana_specification>>

\* get_workflow_min_job_memory(complexity): the memory of the most demanding job.
get_workflow_min_job_memory(complexity) == complexity[1]

\* validate_job_memory_limits(complexity): TRUE when it returns, FALSE when it
\* raises because a job asks for more than the configured maximum.
validate_job_memory_limits(complexity) ==
    complexity[1] <= REANA_KUBERNETES_JOBS_MAX_USER_MEMORY_LIMIT

\* _calculate_complexity: estimates, stores the estimate on the row, commits.
calculate_complexity(wf) ==
    [wf EXCEPT !.complexity = estimate_complexity(wf.reana_specification)]

\* The call of current_workflow_submission_publisher.publish_workflow_submission
\* that ends the function: the publisher either acknowledges or raises.
PublisherCall(wf, id, priority, min_job_memory, ack, estimated) ==
    [wf |-> wf,
     outcome |-> IF ack THEN "ok" ELSE "PublishError",
     estimated |-> estimated,
     publisherCalled |-> TRUE,
     message |-> [workflow_id_or_name |-> id, priority |-> priority,
                  min_job_memory |-> min_job_memory]]

NoMessage == [workflow_id_or_name |-> NoValue, priority |-> 0, min_job_memory |-> 0]

\* The function raises before it reaches the publisher.
Raised(wf, error, estimated) ==
    [wf |-> wf, outcome |-> error, estimated |-> estimated,
     publisherCalled |-> FALSE, message |-> NoMessage]

\* Mutant: the fifo branch estimates the complexity like the balanced one.
MutFifoEstimates(wf, id, pol, priority, ack) ==
    LET queued == [wf EXCEPT !.status = "queued"]
    IN IF pol \notin REANA_WORKFLOW_SCHEDULING_POLICIES
       THEN Raised(queued, "ValueError", FALSE)
       ELSE LET estimated == calculate_complexity(queued)
            IN IF ~validate_job_memory_limits(estimated.complexity)
               THEN Raised(estimated, "JobMemoryLimitExceeded", TRUE)
               ELSE PublisherCall(estimated, id, priority,
                        get_workflow_min_job_memory(estimated.complexity),
                        ack, TRUE)

\* Mutant: the fifo branch returns without calling the publisher.
MutFifoSkipsPublish(wf, id, pol, priority, ack) ==
    LET queued == [wf EXCEPT !.status = "queued"]
    IN IF pol \notin REANA_WORKFLOW_SCHEDULING_POLICIES
       THEN Raised(queued, "ValueError", FALSE)
       ELSE IF pol = "fifo"
       THEN [wf |-> queued, outcome |-> "ok", estimated |-> FALSE,
             publisherCalled |-> FALSE, message |-> NoMessage]
       ELSE LET estimated == calculate_complexity(queued)
            IN IF ~validate_job_memory_limits(estimated.complexity)
               THEN Raised(estimated, "JobMemoryLimitExceeded", TRUE)
               ELSE PublisherCall(estimated, id, priority,
                        get_workflow_min_job_memory(estimated.complexity),
                        ack, TRUE)

\* Mutant: the job memory limits are not validated before publishing.
MutNoValidation(wf, id, pol, priority, ack) ==
    LET queued == [wf EXCEPT !.status = "queued"]
    IN IF pol \notin REANA_WORKFLOW_SCHEDULING_POLICIES
       THEN Raised(queued, "ValueError", FALSE)
       ELSE IF pol = "fifo"
       THEN PublisherCall(queued, id, 0, 0, ack, FALSE)
       ELSE LET estimated == calculate_complexity(queued)
            IN PublisherCall(estimated, id, priority,
                   get_workflow_min_job_memory(estimated.complexity), ack, TRUE)

\* publish_workflow_submission(workflow, user_id, parameters). `priority` is
\* what workflow.get_priority(total_cluster_memory) answers and `ack` whether
\* the publisher accepts the message. The result holds the row as the call
\* leaves it, how the call ended, and what it did on the way.
publish_workflow_submission(wf, id, pol, priority, ack) ==
    LET queued == [wf EXCEPT !.status = "queued"]
    IN IF pol \notin REANA_WORKFLOW_SCHEDULING_POLICIES
       THEN Raised(queued, "ValueError", FALSE)
       ELSE IF pol = "fifo"
       THEN PublisherCall(queued, id, 0, 0, ack, FALSE)
       ELSE LET estimated == calculate_complexity(queued)
            IN IF ~validate_job_memory_limits(estimated.complexity)
               THEN Raised(estimated, "JobMemoryLimitExceeded", TRUE)
               ELSE PublisherCall(estimated, id, priority,
                        get_workflow_min_job_memory(estimated.complexity),
                        ack, TRUE)

(***************************************************************************)
(* ADMISSION LOOP                                                          *)
(***************************************************************************)
ProbeResults == {"ready", "not_ready", "unreachable"}

NoCall ==
    [workflow |-> NoValue, before |-> NewWorkflow(1), after |-> NewWorkflow(1),
     outcome |-> NoValue, estimated |-> FALSE, publisherCalled |-> FALSE,
     message |-> NoMessage]

AdmIdle ==
    /\ policy = "fifo"
    /\ workflows = [w \in Workflows |-> NewWorkflow(1)]
    /\ estimatorCalls = [w \in Workflows |-> 0]
    /\ pubCalls = [w \in Workflows |-> 0]
    /\ published = {}
    /\ lstate = [w \in Workflows |-> "Queued"]
    /\ retry_count = [w \in Workflows |-> 0]
    /\ checks = [w \in Workflows |-> 0]
    /\ firstReady = [w \in Workflows |-> 0]
    /\ pubErrors = [w \in Workflows |-> 0]
    /\ lastCall = NoCall
    /\ lastProbe = NoValue
    /\ stop_requested = {}

AdmInit ==
    /\ policy \in ConfiguredPolicies
    /\ workflows \in [Workflows -> {NewWorkflow(m) : m \in 1..MaxJobMemory}]
    /\ estimatorCalls = [w \in Workflows |-> 0]
    /\ pubCalls = [w \in Workflows |-> 0]
    /\ published = {}
    /\ lstate = [w \in Workflows |-> "Queued"]
    /\ retry_count = [w \in Workflows |-> 0]
    /\ checks = [w \in Workflows |-> 0]
    /\ firstReady = [w \in Workflows |-> 0]
    /\ pubErrors = [w \in Workflows |-> 0]
    /\ lastCall = NoCall
    /\ lastProbe = NoValue
    /\ stop_requested = {}

\* Mutant: a requeued submission is never picked up again.
MutLosesRequeued(w) == lstate[w] = "Queued" /\ retry_count[w] = 0

\* Mutant: the loop also picks up submissions it has already admitted.
MutPullsAdmitted(w) == lstate[w] \in {"Queued", "Admitted"}

\* The submissions the loop evaluates: those waiting in Queued.
Pullable(w) == lstate[w] = "Queued"

\* Mutant: the loop never looks at the stop signal.
MutIgnoresStop(w) == FALSE

\* The loop's cancellation point: a stop signal was sent for the submission.
StopRequested(w) == w \in stop_requested

\* Mutant: the loop gives one attempt more than the ceiling.
MutRetryOneMore(n) == n <= REANA_SCHEDULER_REQUEUE_COUNT

\* After the retry counter was incremented to n: requeue or give up.
MayRequeue(n) == n < REANA_SCHEDULER_REQUEUE_COUNT

\* Mutant: an error of the publisher is treated as fatal.
MutPublishErrorFatal(outcome) == FALSE

\* The outcomes of a ready attempt that are transient: an error returned by
\* the publisher.
IsTransient(outcome) == outcome = "PublishError"

\* The requeue path: increment the retry counter; below the ceiling the
\* submission re-enters Queued, at the ceiling it is marked failed.
RequeuePath(w, wfs) ==
    LET n == retry_count[w] + 1
    IN /\ retry_count' = [retry_count EXCEPT ![w] = n]
       /\ IF MayRequeue(n)
          THEN /\ lstate' = [lstate EXCEPT ![w] = "Queued"]
               /\ workflows' = wfs
          ELSE /\ lstate' = [lstate EXCEPT ![w] = "Failed"]
               /\ workflows' = [wfs EXCEPT ![w].status = "failed"]

\* One attempt whose readiness probe does not answer "ready" (an unreachable
\* cluster state source counts as not ready).
AttemptNotReady(w, probe) ==
    /\ Pullable(w)
    /\ ~StopRequested(w)
    /\ probe # "ready"
    /\ lastProbe' = probe
    /\ checks' = [checks EXCEPT ![w] = @ + 1]
    /\ RequeuePath(w, workflows)
    /\ UNCHANGED <<policy, estimatorCalls, pubCalls, published, firstReady,
                   pubErrors, lastCall, stop_requested, quotaVars, retVars,
                   cloneVars, probeVars, filterVars>>

\* One attempt whose readiness probe answers "ready": the submission is
\* published through publish_workflow_submission.
AttemptReady(w, priority, ack) ==
    /\ Pullable(w)
    /\ ~StopRequested(w)
    /\ lastProbe' = "ready"
    /\ checks' = [checks EXCEPT ![w] = @ + 1]
    /\ firstReady' = [firstReady EXCEPT ![w] = IF @ = 0 THEN checks[w] + 1 ELSE @]
    /\ LET r == publish_workflow_submission(workflows[w], w, policy, priority, ack)
           wfs == [workflows EXCEPT ![w] = r.wf]
       IN /\ lastCall' = [workflow |-> w, before |-> workflows[w], after |-> r.wf,
                          outcome |-> r.outcome, estimated |-> r.estimated,
                          publisherCalled |-> r.publisherCalled,
                          message |-> r.message]
          /\ estimatorCalls' = [estimatorCalls EXCEPT ![w] =
                                   IF r.estimated THEN @ + 1 ELSE @]
          /\ pubCalls' = [pubCalls EXCEPT ![w] =
                             IF r.publisherCalled THEN @ + 1 ELSE @]
          /\ published' = IF r.outcome = "ok"
                          THEN published \cup {r.message} ELSE published
          /\ pubErrors' = [pubErrors EXCEPT ![w] =
                              IF r.outcome = "PublishError" THEN @ + 1 ELSE @]
          /\ CASE r.outcome = "ok" ->
                      /\ lstate' = [lstate EXCEPT ![w] = "Admitted"]
                      /\ workflows' = wfs
                      /\ UNCHANGED retry_count
               [] r.outcome # "ok" /\ IsTransient(r.outcome) -> RequeuePath(w, wfs)
               [] OTHER ->
                      /\ lstate' = [lstate EXCEPT ![w] = "Rejected"]
                      /\ workflows' = wfs
                      /\ UNCHANGED retry_count
    /\ UNCHANGED <<policy, stop_requested, quotaVars, retVars, cloneVars, probeVars, filterVars>>

\* An external "stop" signal arrives for a submission that has not reached
\* Admitted.
StopSignal(w) ==
    /\ lstate[w] = "Queued"
    /\ ~StopRequested(w)
    /\ stop_requested' = stop_requested \cup {w}
    /\ UNCHANGED <<policy, workflows, estimatorCalls, pubCalls, published, lstate,
                   retry_count, checks, firstReady, pubErrors, lastCall, lastProbe,
                   quotaVars, retVars, cloneVars, probeVars, filterVars>>

\* The loop finds the stop signal when it pulls the submission: it stops
\* retrying and the submission ends in the terminal cancelled state.
Cancel(w) ==
    /\ Pullable(w)
    /\ StopRequested(w)
    /\ lstate' = [lstate EXCEPT ![w] = "Cancelled"]
    /\ UNCHANGED <<policy, workflows, estimatorCalls, pubCalls, published,
                   retry_count, checks, firstReady, pubErrors, lastCall, lastProbe,
                   stop_requested, quotaVars, retVars, cloneVars, probeVars, filterVars>>

(***************************************************************************)
(* READINESS PROBE                                                         *)
(***************************************************************************)
\* The values REANA_WORKFLOW_SCHEDULING_READINESS_CHECK_LEVEL is given: the
\* four of the value map and one that is not in it.
CheckLevels == {0, 1, 2, 9, 5}

\* Mutant: levels 1 and 2 select each other's check.
MutLevelsSwapped(level) ==
    CASE level = 0 -> "no_checks"
      [] level = 1 -> "memory"
      [] level = 2 -> "concurrent"
      [] level = 9 -> "all_checks"
      [] OTHER -> "all_checks"

\* REANA_WORKFLOW_SCHEDULING_READINESS_CHECK_LEVEL_VALUE_MAP.get(level,
\* "all_checks")
REANA_WORKFLOW_SCHEDULING_READINESS_CHECK_VALUE(level) ==
    CASE level = 0 -> "no_checks"
      [] level = 1 -> "concurrent"
      [] level = 2 -> "memory"
      [] level = 9 -> "all_checks"
      [] OTHER -> "all_checks"

\* The check for the number of concurrently running workflows.
check_concurrent(running) == running < ConcurrencyCeiling

\* The check for available cluster memory: a min_job_memory of 0 stands for
\* the cluster-default estimate.
check_memory(available, min_job_memory) ==
    (IF min_job_memory = 0 THEN DefaultJobMemory ELSE min_job_memory) <= available

\* ReadinessProbe.isReady for a check value and a cluster state.
isReady(value, running, available, min_job_memory) ==
    CASE value = "no_checks" -> TRUE
      [] value = "concurrent" -> check_concurrent(running)
      [] value = "memory" -> check_memory(available, min_job_memory)
      [] OTHER -> check_concurrent(running) /\ check_memory(available, min_job_memory)

ProbeIdle ==
    /\ probe_in = [level |-> 0, running |-> 0, available |-> 0, min_job_memory |-> 0]
    /\ probe_out = NoValue

ProbeInit ==
    /\ probe_in \in [level : CheckLevels, running : 0..MaxRunning,
                      available : 0..MaxAvailableMemory,
                      min_job_memory : 0..MaxJobMemory]
    /\ probe_out = NoValue

\* The probe is asked once with the configured level.
Probe ==
    /\ probe_out = NoValue
    /\ probe_out' =
          IF isReady(REANA_WORKFLOW_SCHEDULING_READINESS_CHECK_VALUE(probe_in.level),
                     probe_in.running, probe_in.available, probe_in.min_job_memory)
          THEN "ready" ELSE "not_ready"
    /\ UNCHANGED <<probe_in, quotaVars, admVars, retVars, cloneVars, filterVars>>

(***************************************************************************)
(* RETENTION RULES                                                         *)
(***************************************************************************)
Patterns == {DEFAULT_WORKSPACE_RETENTION_RULE, "**/*.txt", "inputs", "../secret"}

Rule(pattern, days) == [workspace_files |-> pattern, retention_days |-> days]

\* The rule maps of a specification: a dict keeps its keys distinct and in
\* insertion order. `present` is FALSE for a specification that declares no
\* retention_days at all (None).
RECURSIVE DictItems(_)
DictItems(n) ==
    IF n = 0 THEN {<<>>}
    ELSE LET shorter == DictItems(n - 1)
         IN shorter \cup
            {Append(items, Rule(p, d)) :
                items \in {x \in shorter : Len(x) = n - 1},
                p \in Patterns, d \in 0..(WORKSPACE_RETENTION_PERIOD + 1)}

DistinctKeys(items) ==
    \A i, j \in 1..Len(items) :
        items[i].workspace_files = items[j].workspace_files => i = j

RetentionMaps ==
    {[present |-> TRUE, items |-> items] :
        items \in {x \in DictItems(MaxRules) : DistinctKeys(x)}}
    \cup {[present |-> FALSE, items |-> <<>>]}

\* validate_retention_rule(rule, days): TRUE when it returns, FALSE when it
\* raises REANAValidationError.
validate_retention_rule(rule, days) ==
    /\ rule # "../secret"
    /\ days >= 1
    /\ days <= WORKSPACE_RETENTION_PERIOD

\* Mutant: an invalid item is skipped and the remaining ones are still
\* collected.
RECURSIVE MutSkipInvalid(_, _, _)
MutSkipInvalid(items, i, retention_rules) ==
    IF i > Len(items) THEN [raised |-> FALSE, rules |-> retention_rules]
    ELSE IF ~validate_retention_rule(items[i].workspace_files, items[i].retention_days)
    THEN MutSkipInvalid(items, i + 1, retention_rules)
    ELSE MutSkipInvalid(items, i + 1,
             Append(retention_rules,
                    Rule(items[i].workspace_files, items[i].retention_days)))

\* The for loop of get_workspace_retention_rules from item i on: every item
\* is validated, then appended; the first invalid one raises.
RECURSIVE ValidateAndAppend(_, _, _)
ValidateAndAppend(items, i, retention_rules) ==
    IF i > Len(items) THEN [raised |-> FALSE, rules |-> retention_rules]
    ELSE IF ~validate_retention_rule(items[i].workspace_files, items[i].retention_days)
    THEN [raised |-> TRUE, rules |-> <<>>]
    ELSE ValidateAndAppend(items, i + 1,
             Append(retention_rules,
                    Rule(items[i].workspace_files, items[i].retention_days)))

HasDefaultRule(retention_rules) ==
    \E i \in 1..Len(retention_rules) :
        retention_rules[i].workspace_files = DEFAULT_WORKSPACE_RETENTION_RULE

\* Mutant: the default rule is appended whether or not one is present.
MutAlwaysAppendDefault(rd) ==
    LET explicit == IF rd.present /\ rd.items # <<>>
                    THEN ValidateAndAppend(rd.items, 1, <<>>)
                    ELSE [raised |-> FALSE, rules |-> <<>>]
    IN IF explicit.raised THEN explicit
       ELSE [raised |-> FALSE,
             rules |-> Append(explicit.rules,
                          Rule(DEFAULT_WORKSPACE_RETENTION_RULE,
                               WORKSPACE_RETENTION_PERIOD))]

\* Mutant: the default rule is inserted in front of the explicit ones.
MutDefaultFirst(rd) ==
    LET explicit == IF rd.present /\ rd.items # <<>>
                    THEN ValidateAndAppend(rd.items, 1, <<>>)
                    ELSE [raised |-> FALSE, rules |-> <<>>]
    IN IF explicit.raised THEN explicit
       ELSE IF HasDefaultRule(explicit.rules) THEN explicit
       ELSE [raised |-> FALSE,
             rules |-> <<Rule(DEFAULT_WORKSPACE_RETENTION_RULE,
                              WORKSPACE_RETENTION_PERIOD)>> \o explicit.rules]

\* get_workspace_retention_rules(retention_days): raised, or the list returned.
get_workspace_retention_rules(rd) ==
    LET explicit == IF rd.present /\ rd.items # <<>>
                    THEN ValidateAndAppend(rd.items, 1, <<>>)
                    ELSE [raised |-> FALSE, rules |-> <<>>]
    IN IF explicit.raised THEN explicit
       ELSE IF HasDefaultRule(explicit.rules) THEN explicit
       ELSE [raised |-> FALSE,
             rules |-> Append(explicit.rules,
                          Rule(DEFAULT_WORKSPACE_RETENTION_RULE,
                               WORKSPACE_RETENTION_PERIOD))]

NotResolved == [state |-> "none", rules |-> <<>>]

RetIdle ==
    /\ retention_days = [present |-> FALSE, items |-> <<>>]
    /\ resolved = NotResolved

RetInit ==
    /\ retention_days \in RetentionMaps
    /\ resolved = NotResolved

\* The resolver is called on the rule map.
Resolve ==
    /\ resolved.state = "none"
    /\ LET r == get_workspace_retention_rules(retention_days)
       IN resolved' = [state |-> IF r.raised THEN "raised" ELSE "returned",
                       rules |-> r.rules]
    /\ UNCHANGED <<retention_days, quotaVars, admVars, cloneVars, probeVars, filterVars>>

(***************************************************************************)
(* RESTART: clone_workflow                                                 *)
(***************************************************************************)
\* A specification document, abstracted to its workspace.retention_days. kind
\* is "none" for no document (None), "empty" for an empty dict and "doc" for a
\* document with content.
NoSpecification == [kind |-> "none", retention |-> [present |-> FALSE, items |-> <<>>]]
EmptySpecification == [kind |-> "empty", retention |-> [present |-> FALSE, items |-> <<>>]]
Document(rd) == [kind |-> "doc", retention |-> rd]

\* The specifications of the workflows being restarted.
OriginalSpecifications ==
    {Document([present |-> FALSE, items |-> <<>>]),
     Document([present |-> TRUE, items |-> <<Rule("inputs", 1)>>])}

\* The reana_spec argument: None, an empty dict, or a new specification.
OverrideSpecifications ==
    {NoSpecification, EmptySpecification} \cup {Document(rd) : rd \in RetentionMaps}

\* The statuses of the retention rules the original workflow has.
RECURSIVE RuleStatuses(_)
RuleStatuses(n) ==
    IF n = 0 THEN {<<>>}
    ELSE LET shorter == RuleStatuses(n - 1)
         IN shorter \cup
            {Append(sts, st) : sts \in {x \in shorter : Len(x) = n - 1},
                              st \in {"active", "applied"}}

\* Mutant: the retention rules are always derived from the original's
\* specification.
MutAlwaysOriginal(reana_spec, original) == original

\* reana_spec or workflow.reana_specification: None and the empty dict are
\* falsy.
resulting_specification(reana_spec, original) ==
    IF reana_spec.kind = "doc" THEN reana_spec ELSE original

\* reana_specification.get("workspace", {}).get("retention_days")
retention_days_of(specification) == specification.retention

\* Workflow.inactivate_workspace_retention_rules: the active rules become
\* inactive.
inactivate_workspace_retention_rules(statuses) ==
    [i \in 1..Len(statuses) |->
        IF statuses[i] = "active" THEN "inactive" ELSE statuses[i]]

\* The except clause: it logs cloned_workflow.id_, which is unbound when the
\* Workflow constructor itself raised, and then falls off the function's end.
ExceptHandler(bound) == IF bound THEN "None" ELSE "UnboundLocalError"

\* The row of the workflow being restarted, and the identities in use.
OriginalWorkflow ==
    [id_ |-> "w0", name |-> "analysis", owner_id |-> "u1", type_ |-> "serial",
     logs |-> "log of run 2", workspace_path |-> "/ws/w0", restart |-> FALSE,
     run_number |-> 2]

ExistingIds == {OriginalWorkflow.id_, "w9"}

\* What uuid4() may return: a value not in use or, improbably, one in use.
Uuids == {"n1", "w9"}

\* The restart_type argument: None or a workflow type.
RestartTypes == {NoValue, "cwl"}

NoRow ==
    [id_ |-> NoValue, name |-> NoValue, owner_id |-> NoValue, type_ |-> NoValue,
     logs |-> NoValue, workspace_path |-> NoValue, restart |-> FALSE,
     run_number |-> 0]

\* Mutant: the clone starts a run-number lineage of its own.
MutCloneResetsRunNumber(workflow, restart_type, id) ==
    [id_ |-> id, name |-> workflow.name, owner_id |-> workflow.owner_id,
     type_ |-> IF restart_type # NoValue THEN restart_type ELSE workflow.type_,
     logs |-> "", workspace_path |-> workflow.workspace_path, restart |-> TRUE,
     run_number |-> 1]

\* Workflow(id_=str(uuid4()), name=workflow.name, ...): the fields of the
\* clone other than its specification.
ClonedWorkflow(workflow, restart_type, id) ==
    [id_ |-> id, name |-> workflow.name, owner_id |-> workflow.owner_id,
     type_ |-> IF restart_type # NoValue THEN restart_type ELSE workflow.type_,
     logs |-> "", workspace_path |-> workflow.workspace_path, restart |-> TRUE,
     run_number |-> workflow.run_number]

EmptyStore(statuses) ==
    [clone_exists |-> FALSE, clone_spec |-> NoSpecification,
     clone_row |-> NoRow, original_row |-> OriginalWorkflow,
     clone_rules |-> <<>>, original_rules |-> statuses]

NoLocals == [retention_rules |-> <<>>, bound |-> FALSE]

CloneIdle ==
    /\ clone_in = [original |-> Document([present |-> FALSE, items |-> <<>>]),
                   reana_spec |-> NoSpecification, restart_type |-> NoValue,
                   store |-> EmptyStore(<<>>)]
    /\ clone_db = EmptyStore(<<>>)
    /\ clone_pc = "idle"
    /\ clone_local = NoLocals
    /\ clone_result = NoValue

CloneInit ==
    /\ \E original \in OriginalSpecifications, reana_spec \in OverrideSpecifications,
          restart_type \in RestartTypes, statuses \in RuleStatuses(MaxPredecessorRules) :
          /\ clone_in = [original |-> original, reana_spec |-> reana_spec,
                         restart_type |-> restart_type,
                         store |-> EmptyStore(statuses)]
          /\ clone_db = EmptyStore(statuses)
    /\ clone_pc = "start"
    /\ clone_local = NoLocals
    /\ clone_result = NoValue

\* Lines 591-593: the rules are derived before the try block; a validation
\* error leaves the function at once.
CloneResolve ==
    /\ clone_pc = "start"
    /\ LET r == get_workspace_retention_rules(
                    retention_days_of(
                        resulting_specification(clone_in.reana_spec, clone_in.original)))
       IN IF r.raised
          THEN /\ clone_pc' = "done"
               /\ clone_result' = "REANAValidationError"
               /\ UNCHANGED clone_local
          ELSE /\ clone_pc' = "create"
               /\ clone_local' = [clone_local EXCEPT !.retention_rules = r.rules]
               /\ UNCHANGED clone_result
    /\ UNCHANGED <<clone_in, clone_db, quotaVars, admVars, retVars, probeVars, filterVars>>

\* Lines 595-607: the clone is constructed, added and committed. The
\* constructor or the commit may raise SQLAlchemyError; the commit does so
\* when the identity is already in use.
CloneCreate(requested, id) ==
    /\ clone_pc = "create"
    /\ LET outcome == IF requested = "ok" /\ id \in ExistingIds
                      THEN "commit_error" ELSE requested
       IN
       CASE outcome = "ok" ->
              /\ clone_db' = [clone_db EXCEPT
                     !.clone_exists = TRUE,
                     !.clone_row = ClonedWorkflow(clone_db.original_row,
                                                  clone_in.restart_type, id),
                     !.clone_spec = resulting_specification(clone_in.reana_spec,
                                                            clone_in.original)]
              /\ clone_local' = [clone_local EXCEPT !.bound = TRUE]
              /\ clone_pc' = "inactivate"
              /\ UNCHANGED clone_result
         [] outcome = "constructor_error" ->
              /\ clone_result' = ExceptHandler(clone_local.bound)
              /\ clone_pc' = "done"
              /\ UNCHANGED <<clone_db, clone_local>>
         [] outcome = "commit_error" ->
              /\ clone_local' = [clone_local EXCEPT !.bound = TRUE]
              /\ clone_result' = ExceptHandler(TRUE)
              /\ clone_pc' = "done"
              /\ UNCHANGED clone_db
    /\ UNCHANGED <<clone_in, quotaVars, admVars, retVars, probeVars, filterVars>>

\* Line 608: the original's active rules are inactivated.
CloneInactivate(ok) ==
    /\ clone_pc = "inactivate"
    /\ IF ok
       THEN /\ clone_db' = [clone_db EXCEPT !.original_rules =
                                inactivate_workspace_retention_rules(@)]
            /\ clone_pc' = "set_rules"
            /\ UNCHANGED clone_result
       ELSE /\ clone_result' = ExceptHandler(clone_local.bound)
            /\ clone_pc' = "done"
            /\ UNCHANGED clone_db
    /\ UNCHANGED <<clone_in, clone_local, quotaVars, admVars, retVars, probeVars, filterVars>>

\* Lines 609-610: the clone gets its rules and is returned.
CloneSetRules(ok) ==
    /\ clone_pc = "set_rules"
    /\ IF ok
       THEN /\ clone_db' = [clone_db EXCEPT !.clone_rules = clone_local.retention_rules]
            /\ clone_result' = "clone"
       ELSE /\ clone_result' = ExceptHandler(clone_local.bound)
            /\ UNCHANGED clone_db
    /\ clone_pc' = "done"
    /\ UNCHANGED <<clone_in, clone_local, quotaVars, admVars, retVars, probeVars, filterVars>>

(***************************************************************************)
(* INPUT FILTERING: filter_input_files                                     *)
(***************************************************************************)
\* The content of a directory tree: a set of nodes, each a path (sequence of
\* names, relative to the workspace) and a kind. Every node's parent is a
\* directory node, the workspace itself being the empty path.
File(path) == [path |-> path, kind |-> "file"]
Dir(path) == [path |-> path, kind |-> "dir"]

IsPrefix(p, q) == Len(p) <= Len(q) /\ SubSeq(q, 1, Len(p)) = p

Exists(fs, p) == \E n \in fs : n.path = p

KindOf(fs, p) == (CHOOSE n \in fs : n.path = p).kind

\* The nodes below p.
Below(fs, p) == {n \in fs : Len(n.path) > Len(p) /\ IsPrefix(p, n.path)}

\* The node p and the nodes below it.
Subtree(fs, p) == {n \in fs : IsPrefix(p, n.path)}

\* The workspaces: input.txt, output.txt, a directory inputs with up to two
\* files and a directory to_be_deleted with up to one file.
Workspaces ==
    {top \cup inputs \cup tbd :
        top \in SUBSET {File(<<"input.txt">>), File(<<"output.txt">>)},
        inputs \in {{}} \cup
            {{Dir(<<"inputs">>)} \cup fs :
                fs \in SUBSET {File(<<"inputs", "data.txt">>),
                               File(<<"inputs", "more.txt">>)}},
        tbd \in {{}} \cup
            {{Dir(<<"to_be_deleted">>)} \cup fs :
                fs \in SUBSET {File(<<"to_be_deleted", "input.txt">>)}}}

\* inputs.files and inputs.directories of the specification.
DeclarableFiles ==
    {<<"input.txt">>, <<"to_be_deleted", "input.txt">>, <<"inputs", "data.txt">>}

DeclarableDirectories == {<<"inputs">>}

RECURSIVE DistinctSeqs(_, _)
DistinctSeqs(S, n) ==
    IF n = 0 THEN {<<>>}
    ELSE LET shorter == DistinctSeqs(S, n - 1)
         IN shorter \cup
            UNION {{Append(q, x) : x \in S \ {q[i] : i \in 1..Len(q)}} :
                      q \in {y \in shorter : Len(y) = n - 1}}

\* workspace / f"filtered-{uuid4()}": a name nothing in the workspace has.
Filtered == <<"filtered-uuid4">>

\* Path.mkdir(parents=True, exist_ok=True)
MkdirParents(fs, p) ==
    fs \cup {Dir(SubSeq(p, 1, k)) : k \in {j \in 1..Len(p) : ~Exists(fs, SubSeq(p, 1, j))}}

\* Path.replace (rename(2)): the source must exist; a target that exists must
\* be a file for a file, and an empty directory for a directory.
Replace(fs, source, target) ==
    IF ~Exists(fs, source) THEN [ok |-> FALSE, fs |-> fs]
    ELSE IF /\ Exists(fs, target)
            /\ \/ KindOf(fs, source) # KindOf(fs, target)
               \/ Below(fs, target) # {}
    THEN [ok |-> FALSE, fs |-> fs]
    ELSE [ok |-> TRUE,
          fs |-> (fs \ (Subtree(fs, source) \cup Subtree(fs, target))) \cup
                 {[path |-> target \o SubSeq(n.path, Len(source) + 1, Len(n.path)),
                   kind |-> n.kind] : n \in Subtree(fs, source)}]

\* Lines 201-207: the declared paths are moved into the filtered directory,
\* from path i on.
RECURSIVE MoveInputs(_, _, _)
MoveInputs(fs, paths, i) ==
    IF i > Len(paths) THEN [ok |-> TRUE, fs |-> fs]
    ELSE LET target == Filtered \o paths[i]
             made == MkdirParents(fs, SubSeq(target, 1, Len(target) - 1))
             moved == Replace(made, paths[i], target)
         IN IF moved.ok THEN MoveInputs(moved.fs, paths, i + 1)
            ELSE [ok |-> FALSE, fs |-> made]

\* Lines 209-223: what is left outside the filtered directory is deleted, the
\* content of the filtered directory is moved up, the directory is removed.
KeepFiltered(fs) ==
    {[path |-> Tail(n.path), kind |-> n.kind] : n \in Below(fs, Filtered)}

\* filter_input_files(workspace, reana_spec): how it ends and what the
\* workspace holds then.
filter_input_files(fs, files, directories) ==
    IF \E i \in 1..Len(files) : ~Exists(fs, files[i])
    THEN [result |-> "REANAValidationError", fs |-> fs]
    ELSE IF \E i \in 1..Len(directories) : ~Exists(fs, directories[i])
    THEN [result |-> "REANAValidationError", fs |-> fs]
    ELSE LET moved == MoveInputs(fs \cup {Dir(Filtered)}, files \o directories, 1)
         IN IF moved.ok
            THEN [result |-> "returned", fs |-> KeepFiltered(moved.fs)]
            ELSE [result |-> "OSError", fs |-> moved.fs]

FilterIdle ==
    /\ filter_in = [workspace |-> {}, files |-> <<>>, directories |-> <<>>]
    /\ workspace = {}
    /\ filter_result = NoValue

FilterInit ==
    /\ \E fs \in Workspaces, files \in DistinctSeqs(DeclarableFiles, MaxDeclaredFiles),
          directories \in DistinctSeqs(DeclarableDirectories, 1) :
          /\ filter_in = [workspace |-> fs, files |-> files, directories |-> directories]
          /\ workspace = fs
    /\ filter_result = NoValue

\* One call of filter_input_files on the workspace.
FilterInputFiles ==
    /\ filter_result = NoValue
    /\ LET r == filter_input_files(workspace, filter_in.files, filter_in.directories)
       IN /\ workspace' = r.fs
          /\ filter_result' = r.result
    /\ UNCHANGED <<filter_in, quotaVars, admVars, retVars, cloneVars, probeVars>>

(***************************************************************************)
(* QUOTA: initial states                                                   *)
(***************************************************************************)
\* A tenant's row starts within its limit when it has one.
QuotaInit ==
    /\ quota_limit \in 0..MaxQuota
    /\ quota_used \in 0..MaxQuota
    /\ quota_limit > 0 => quota_used <= quota_limit
    /\ qpc = [c \in Callers |-> "idle"]
    /\ qbytes = [c \in Callers |-> 0]
    /\ guardLog = [c \in Callers |-> NoGuardCall]

(***************************************************************************)
(* SPECIFICATIONS                                                          *)
(***************************************************************************)
Init == AdmInit /\ QuotaIdle /\ RetIdle /\ CloneIdle /\ ProbeIdle /\ FilterIdle

Next ==
    \/ \E w \in Workflows, probe \in ProbeResults \ {"ready"} :
          AttemptNotReady(w, probe)
    \/ \E w \in Workflows, priority \in 0..MaxPriority, ack \in BOOLEAN :
          AttemptReady(w, priority, ack)

Spec == Init /\ [][Next]_vars

\* The loop with its cancellation point. The loop is continuously active, so
\* a stop signal it can act on is eventually acted on.
StopNext ==
    \/ \E w \in Workflows, probe \in ProbeResults \ {"ready"} :
          AttemptNotReady(w, probe)
    \/ \E w \in Workflows, priority \in 0..MaxPriority, ack \in BOOLEAN :
          AttemptReady(w, priority, ack)
    \/ \E w \in Workflows : StopSignal(w)
    \/ \E w \in Workflows : Cancel(w)

StopSpec ==
    Init /\ [][StopNext]_vars /\ \A w \in Workflows : WF_vars(Cancel(w))

\* What the loop does with one submission: an attempt, or its cancellation.
LoopStep(w) ==
    \/ \E probe \in ProbeResults \ {"ready"} : AttemptNotReady(w, probe)
    \/ \E priority \in 0..MaxPriority, ack \in BOOLEAN : AttemptReady(w, priority, ack)
    \/ Cancel(w)

\* The fair loop: a submission the loop can work on is eventually worked on.
\* What the probe and the publisher answer is not constrained.
FairSpec ==
    Init /\ [][StopNext]_vars /\ \A w \in Workflows : WF_vars(LoopStep(w))

QuotaSpecInit == QuotaInit /\ AdmIdle /\ RetIdle /\ CloneIdle /\ ProbeIdle /\ FilterIdle

QuotaSpecNext ==
    \/ \E c \in Callers, b \in 0..MaxBytes : Guard(c, b)
    \/ \E c \in Callers : Commit(c)

QuotaSpec == QuotaSpecInit /\ [][QuotaSpecNext]_vars

RetentionSpecInit == RetInit /\ QuotaIdle /\ AdmIdle /\ CloneIdle /\ ProbeIdle /\ FilterIdle

RetentionSpecNext == Resolve

RetentionSpec == RetentionSpecInit /\ [][RetentionSpecNext]_vars

CloneSpecInit == CloneInit /\ QuotaIdle /\ AdmIdle /\ RetIdle /\ ProbeIdle /\ FilterIdle

CloneSpecNext ==
    \/ CloneResolve
    \/ \E outcome \in {"ok", "constructor_error", "commit_error"}, id \in Uuids :
          CloneCreate(outcome, id)
    \/ \E ok \in BOOLEAN : CloneInactivate(ok)
    \/ \E ok \in BOOLEAN : CloneSetRules(ok)

CloneSpec == CloneSpecInit /\ [][CloneSpecNext]_vars

ProbeSpecInit == ProbeInit /\ QuotaIdle /\ AdmIdle /\ RetIdle /\ CloneIdle /\ FilterIdle

ProbeSpecNext == Probe

ProbeSpec == ProbeSpecInit /\ [][ProbeSpecNext]_vars

FilterSpecInit ==
    FilterInit /\ QuotaIdle /\ AdmIdle /\ RetIdle /\ CloneIdle /\ ProbeIdle

FilterSpecNext == FilterInputFiles

FilterSpec == FilterSpecInit /\ [][FilterSpecNext]_vars

(***************************************************************************)
(* CLAIMS: quota guard (QuotaSpec)                                         *)
(***************************************************************************)
GuardExpected(g) == g.limit = 0 \/ g.used + g.bytes <= g.limit

\* C1: for a quota row with limit L and usage U and every bytes_to_sum B >= 0,
\* prevent_disk_quota_excess passes when L = 0 whatever B is, and when L > 0 it
\* passes exactly when U + B <= L and raises otherwise; with L = 1000 and
\* U = 900, B = 150 is rejected and B = 50 passes.
C1_GuardDecision ==
    /\ \A c \in Callers :
          guardLog[c].called =>
             /\ guardLog[c].passed <=> GuardExpected(guardLog[c])
             /\ guardLog[c].passed <=> qpc[c] \in {"passed", "done"}
             /\ ~guardLog[c].passed <=> qpc[c] = "rejected"
    /\ ~prevent_disk_quota_excess(1000, 900, 150)
    /\ prevent_disk_quota_excess(1000, 900, 50)

\* C1 witness: with a limit set, one caller was let through exactly at the
\* limit and another was rejected.
C1_Witness ==
    \E c, d \in Callers :
        /\ guardLog[c].called /\ guardLog[c].limit > 0 /\ guardLog[c].bytes > 0
        /\ guardLog[c].passed
        /\ guardLog[c].used + guardLog[c].bytes = guardLog[c].limit
        /\ guardLog[d].called /\ ~guardLog[d].passed

\* C2: with a limit L > 0 and an initial usage <= L, under every interleaving
\* of concurrent guarded actions of one tenant (guard, then commit of the
\* bytes to quota_used), quota_used <= L in every reachable state.
C2_QuotaNeverExceeded == quota_limit > 0 => quota_used <= quota_limit

(***************************************************************************)
(* CLAIMS: admission (Spec)                                                *)
(***************************************************************************)
PublishedFor(w) == {m \in published : m.workflow_id_or_name = w}

\* What the loop holds about one submission.
LoopFields(w) ==
    <<lstate[w], retry_count[w], checks[w], firstReady[w], pubCalls[w],
      pubErrors[w], estimatorCalls[w], PublishedFor(w)>>

NeverReady(w) == firstReady[w] = 0

C3_State(w) ==
    /\ (NeverReady(w) /\ checks[w] < REANA_SCHEDULER_REQUEUE_COUNT) =>
          /\ lstate[w] = "Queued"
          /\ retry_count[w] = checks[w]
    /\ (NeverReady(w) /\ checks[w] >= REANA_SCHEDULER_REQUEUE_COUNT) =>
          /\ lstate[w] = "Failed"
          /\ retry_count[w] = REANA_SCHEDULER_REQUEUE_COUNT
          /\ checks[w] = REANA_SCHEDULER_REQUEUE_COUNT
    /\ NeverReady(w) => pubCalls[w] = 0 /\ PublishedFor(w) = {}

Acknowledged(w) == pubErrors[w] = 0 /\ lstate[w] # "Rejected"

C4_Amended_State(w) ==
    /\ (firstReady[w] > 0 /\ Acknowledged(w)) =>
          /\ lstate[w] = "Admitted"
          /\ firstReady[w] <= REANA_SCHEDULER_REQUEUE_COUNT
          /\ checks[w] = firstReady[w]
          /\ retry_count[w] = firstReady[w] - 1
          /\ pubCalls[w] = 1
          /\ Cardinality(PublishedFor(w)) = 1
    /\ lstate[w] = "Admitted" => pubCalls[w] - pubErrors[w] = 1

\* C4 as stated: for every k in 1..N, a submission whose readiness check first
\* answers ready on attempt k is Admitted after exactly k readiness checks and
\* exactly one publish call (submissions still waiting in the queue and
\* submissions rejected by a configuration or validation error set aside).
C4_Original ==
    \A w \in Workflows :
        (firstReady[w] > 0 /\ lstate[w] \notin {"Queued", "Rejected"}) =>
            /\ lstate[w] = "Admitted"
            /\ checks[w] = firstReady[w]
            /\ pubCalls[w] = 1

\* C4 (amended): for every k in 1..N, a submission whose readiness check first
\* answers ready on attempt k and whose publish call on that attempt is
\* acknowledged is Admitted after exactly k readiness checks and exactly one
\* publish call; every Admitted submission has exactly one acknowledged publish
\* call, and Admitted is terminal: no later check, requeue or failure.
C4_ReadyAtKAdmitted ==
    [][\A w \in Workflows :
          /\ C4_Amended_State(w)'
          /\ lstate[w] = "Admitted" =>
                /\ lstate'[w] = "Admitted"
                /\ LoopFields(w)' = LoopFields(w)]_vars

\* C4 witness: a submission was admitted on the last attempt the ceiling
\* allows, after not-ready answers on all the attempts before.
C4_Witness ==
    \E w \in Workflows :
        /\ lstate[w] = "Admitted" /\ pubErrors[w] = 0
        /\ firstReady[w] = REANA_SCHEDULER_REQUEUE_COUNT
        /\ checks[w] = REANA_SCHEDULER_REQUEUE_COUNT
        /\ pubCalls[w] = 1

\* C5: once a submission is Admitted (its publish was acknowledged), no later
\* step makes another publish call for that workflow id, whatever happens to
\* the other submissions.
C5_NoRepublish ==
    [][\A w \in Workflows :
          lstate[w] = "Admitted" =>
              /\ pubCalls'[w] = pubCalls[w]
              /\ PublishedFor(w)' = PublishedFor(w)]_vars

\* C5 witness: a submission is Admitted and the loop has since published
\* another one.
C5_Witness ==
    \E w, v \in Workflows :
        /\ w # v
        /\ lstate[w] = "Admitted"
        /\ lastCall.workflow = v /\ lastCall.publisherCalled
        /\ pubCalls[w] = 1

Called == lastCall.workflow # NoValue

\* C6: under the fifo policy every call of publish_workflow_submission hands
\* the submission to the publisher with priority 0 and min_job_memory 0, calls
\* no complexity estimator and leaves the workflow's complexity as it was.
C6_FifoPublishesZero ==
    policy = "fifo" =>
        /\ Called =>
              /\ lastCall.publisherCalled
              /\ lastCall.message.workflow_id_or_name = lastCall.workflow
              /\ lastCall.message.priority = 0
              /\ lastCall.message.min_job_memory = 0
              /\ ~lastCall.estimated
              /\ lastCall.after.complexity = lastCall.before.complexity
        /\ \A m \in published : m.priority = 0 /\ m.min_job_memory = 0
        /\ \A w \in Workflows :
              estimatorCalls[w] = 0 /\ workflows[w].complexity = <<>>

\* C6 witness: under fifo a submission was published and acknowledged.
C6_Witness ==
    /\ policy = "fifo"
    /\ Called /\ lastCall.outcome = "ok"
    /\ lastCall.message \in published

\* C7: when the configured policy is neither fifo nor balanced,
\* publish_workflow_submission raises the invalid-configuration error, calls
\* neither the estimator nor the publisher, and leaves the workflow's status
\* and every other persisted field as they were before the call.
C7_InvalidPolicyNoEffect ==
    (policy \notin REANA_WORKFLOW_SCHEDULING_POLICIES /\ Called) =>
        /\ lastCall.outcome = "ValueError"
        /\ ~lastCall.estimated
        /\ ~lastCall.publisherCalled
        /\ lastCall.after = lastCall.before

ExceedsMemoryLimit(w) ==
    ~validate_job_memory_limits(estimate_complexity(workflows[w].reana_specification))

DefaultPositions(rules) ==
    {i \in 1..Len(rules) : rules[i].workspace_files = DEFAULT_WORKSPACE_RETENTION_RULE}

\* C9: on every rule map (an empty or absent one included) on which
\* get_workspace_retention_rules returns, the list returned holds exactly one
\* rule whose pattern is **/*.
C9_ExactlyOneDefault ==
    resolved.state = "returned" => Cardinality(DefaultPositions(resolved.rules)) = 1

\* C9 witness: the resolver returned on a map that names **/* itself, next to
\* another rule.
C9_Witness ==
    /\ resolved.state = "returned"
    /\ Len(retention_days.items) = 2
    /\ DefaultPositions(retention_days.items) = {1}

\* C10: get_workspace_retention_rules returns the explicit rules in insertion
\* order with their days; when none targets **/* one synthetic rule
\* {**/*, maximum retention days} is appended as the last element, and when an
\* explicit rule targets **/* nothing is added and that rule keeps its days
\* and its position.
C10_InsertionOrderDefaultLast ==
    resolved.state = "returned" =>
        LET items == retention_days.items
            rules == resolved.rules
        IN /\ \A i \in 1..Len(items) : rules[i] = items[i]
           /\ DefaultPositions(items) # {} => rules = items
           /\ DefaultPositions(items) = {} =>
                 /\ Len(rules) = Len(items) + 1
                 /\ rules[Len(rules)] =
                       Rule(DEFAULT_WORKSPACE_RETENTION_RULE, WORKSPACE_RETENTION_PERIOD)

\* C10 witness: the resolver returned on a map of two rules, none of them for
\* **/*, and appended the synthetic rule.
C10_Witness ==
    /\ resolved.state = "returned"
    /\ Len(retention_days.items) = 2
    /\ DefaultPositions(retention_days.items) = {}
    /\ Len(resolved.rules) = 3

\* The retention days the restarted workflow's resulting specification
\* declares: the override's when a new specification is supplied, else the
\* original's.
CloneResultingDays ==
    IF clone_in.reana_spec.kind = "doc"
    THEN clone_in.reana_spec.retention
    ELSE clone_in.original.retention

\* The positions of the explicit entries that fail validation.
InvalidPositions(rd) ==
    IF rd.present
    THEN {i \in 1..Len(rd.items) :
            ~validate_retention_rule(rd.items[i].workspace_files,
                                     rd.items[i].retention_days)}
    ELSE {}

ActivePositions(statuses) == {i \in 1..Len(statuses) : statuses[i] = "active"}

\* C11: retention-rule resolution is all-or-nothing. When any explicit entry
\* of the map is invalid, wherever it sits, the restart ends with a
\* validation error as soon as it has resolved: no rule list is kept, no
\* retention rule is persisted, no clone is created and no rule of the
\* predecessor is inactivated.
C11_AllOrNothing ==
    (InvalidPositions(CloneResultingDays) # {} /\ clone_pc # "start") =>
        /\ clone_pc = "done"
        /\ clone_result = "REANAValidationError"
        /\ clone_local.retention_rules = <<>>
        /\ clone_db = clone_in.store
        /\ ~clone_db.clone_exists
        /\ clone_db.clone_rules = <<>>

\* C11 witness: a restart ended on a map of two entries whose first entry is
\* valid and whose second is not, for a predecessor that has an active rule.
C11_Witness ==
    /\ clone_pc = "done"
    /\ InvalidPositions(CloneResultingDays) = {2}
    /\ ActivePositions(clone_in.store.original_rules) # {}
    /\ clone_result = "REANAValidationError"

\* C12: after a successful restart whose resulting specification declares
\* retention days R, the clone's rules are exactly what the resolver returns
\* for R (for a single **/*.txt rule: that rule with its days, then the
\* synthetic **/* rule with the maximum days), and every rule of the
\* predecessor that was active is inactive, however many there were.
C12_CloneRulesAndInactivation ==
    clone_result = "clone" =>
        LET R == CloneResultingDays
            before == clone_in.store.original_rules
            after == clone_db.original_rules
        IN /\ clone_db.clone_exists
           /\ clone_db.clone_rules = get_workspace_retention_rules(R).rules
           /\ (R.present /\ Len(R.items) = 1 /\ R.items[1].workspace_files = "**/*.txt") =>
                 clone_db.clone_rules =
                    <<Rule("**/*.txt", R.items[1].retention_days),
                      Rule(DEFAULT_WORKSPACE_RETENTION_RULE, WORKSPACE_RETENTION_PERIOD)>>
           /\ Len(after) = Len(before)
           /\ \A i \in 1..Len(before) :
                 after[i] = IF before[i] = "active" THEN "inactive" ELSE before[i]

\* C12 witness: a restart with a new specification declaring one **/*.txt
\* rule succeeded for a predecessor with two active rules.
C12_Witness ==
    /\ clone_result = "clone"
    /\ clone_in.reana_spec.kind = "doc"
    /\ Len(CloneResultingDays.items) = 1
    /\ CloneResultingDays.items[1].workspace_files = "**/*.txt"
    /\ clone_in.store.original_rules = <<"active", "active">>

\* C13: at no moment of a restart, whether it succeeds or fails at any step,
\* can a reader see the predecessor's previously active rules inactive while
\* the clone has no rules.
C13_NoHalfDoneRestart ==
    ~ /\ ActivePositions(clone_in.store.original_rules) # {}
      /\ ActivePositions(clone_db.original_rules) = {}
      /\ clone_db.clone_rules = <<>>

\* A persistence step of the restart raised.
PersistenceFailed ==
    clone_pc = "done" /\ clone_result \notin {"clone", "REANAValidationError"}

\* C14: when a persistence step of the restart fails, the caller is told of
\* the failure, the store is as it was before the restart (no clone, the
\* predecessor's rules unchanged), and the failure path does not refer to a
\* clone that was never created.
C14_FailureLeavesNoTrace ==
    PersistenceFailed =>
        /\ clone_result = "SQLAlchemyError"
        /\ clone_db = clone_in.store
        /\ clone_result # "UnboundLocalError"

\* What a step may do to a submission a stop signal was sent for.
AfterStopSignal(w) ==
    /\ checks'[w] = checks[w]
    /\ retry_count'[w] = retry_count[w]
    /\ pubCalls'[w] = pubCalls[w]
    /\ lstate[w] \in {"Queued", "Cancelled"}
    /\ lstate'[w] \in {lstate[w], "Cancelled"}

\* C15: once an external stop signal has arrived for a submission that has
\* not reached Admitted, the loop makes no further readiness check, requeue
\* or publish call for it, the submission never becomes Failed or Admitted,
\* and it ends in the terminal cancelled state.
C15_StopCancels ==
    /\ [][\A w \in Workflows : w \in stop_requested => AfterStopSignal(w)]_vars
    /\ \A w \in Workflows : (w \in stop_requested) ~> (lstate[w] = "Cancelled")

\* C15 witness: a submission was cancelled after it had been checked and
\* requeued, while the other one went on to be admitted.
C15_Witness ==
    \E w \in Workflows, v \in Workflows :
        /\ lstate[w] = "Cancelled"
        /\ w \in stop_requested
        /\ checks[w] >= 1
        /\ lstate[v] = "Admitted"

\* The step is an attempt on w that met a transient failure or a not-ready
\* answer: the probe could not reach the cluster state, the probe answered
\* not ready, or the publisher returned an error.
NotAdmittedAttempt(w) ==
    /\ checks'[w] = checks[w] + 1
    /\ \/ lastProbe' \in {"unreachable", "not_ready"}
       \/ pubErrors'[w] = pubErrors[w] + 1

\* C17: an attempt that meets a transient failure of a collaborator (the
\* probe cannot reach the cluster state, or the publisher returns an error)
\* takes the path of a not-ready answer: the retry counter goes up by one,
\* the submission is requeued while the counter is below the ceiling and is
\* Failed when it reaches it, and the attempt does not mark it Admitted.
C17_TransientLikeNotReady ==
    [][\A w \in Workflows :
          NotAdmittedAttempt(w) =>
             /\ retry_count'[w] = retry_count[w] + 1
             /\ lstate'[w] # "Admitted"
             /\ retry_count'[w] < REANA_SCHEDULER_REQUEUE_COUNT => lstate'[w] = "Queued"
             /\ retry_count'[w] >= REANA_SCHEDULER_REQUEUE_COUNT =>
                   /\ lstate'[w] = "Failed"
                   /\ workflows'[w].status = "failed"]_vars

\* C17 witness: a submission met a publisher error and later failed at the
\* ceiling on an attempt whose probe could not reach the cluster state.
C17_Witness ==
    \E w \in Workflows :
        /\ pubErrors[w] >= 1
        /\ lstate[w] = "Failed"
        /\ lastProbe = "unreachable"
        /\ \A v \in Workflows \ {w} : checks[v] = 0

\* The two conditions of the readiness probe, on the probe's input.
ConcurrencyFree == probe_in.running < ConcurrencyCeiling

MemoryFits ==
    \/ probe_in.min_job_memory > 0 /\ probe_in.min_job_memory <= probe_in.available
    \/ probe_in.min_job_memory = 0 /\ DefaultJobMemory <= probe_in.available

\* C18: the probe's answer by configured check level. Level 0 (no_checks) is
\* ready in every cluster state; level 1 (concurrent) is ready iff fewer
\* submissions run than the concurrency ceiling; level 2 (memory) is ready
\* iff min_job_memory, or the cluster-default estimate when it is 0, fits the
\* available memory; level 9 (all_checks) is ready iff both hold.
C18_ProbeByLevel ==
    probe_out # NoValue =>
        /\ probe_in.level = 0 => probe_out = "ready"
        /\ probe_in.level = 1 => (probe_out = "ready" <=> ConcurrencyFree)
        /\ probe_in.level = 2 => (probe_out = "ready" <=> MemoryFits)
        /\ probe_in.level = 9 => (probe_out = "ready" <=> (ConcurrencyFree /\ MemoryFits))

\* C18 witness: the probe answered not ready at level 9 because the memory
\* did not fit while a concurrency slot was free, for a submission whose
\* min_job_memory is 0.
C18_Witness ==
    /\ probe_out = "not_ready"
    /\ probe_in.level = 9
    /\ probe_in.min_job_memory = 0
    /\ ConcurrencyFree
    /\ ~MemoryFits

\* C20: after a call of publish_workflow_submission has returned or raised,
\* the workflow has status queued only if the publisher was handed a
\* submission for it, and a call that ended in a configuration or validation
\* error leaves it in status failed.
C20_QueuedOnlyIfPublished ==
    Called =>
        /\ lastCall.after.status = "queued" => lastCall.publisherCalled
        /\ lastCall.outcome \in {"ValueError", "JobMemoryLimitExceeded"} =>
              lastCall.after.status = "failed"

\* The loop states a submission does not leave. Rejected is the state of a
\* submission whose admission was aborted by a configuration or validation
\* error, which is never retried.
TerminalStates == {"Admitted", "Failed", "Cancelled", "Rejected"}

C22_EstimatedAtMostOnce ==
    policy = "balanced" =>
        /\ \A w \in Workflows : estimatorCalls[w] <= 1
        /\ (Called /\ lastCall.before.complexity # <<>>) => ~lastCall.estimated

\* What a clone must be, given the specification it is to carry.
CloneIs(specification) ==
    LET original == clone_in.store.original_row
        clone == clone_db.clone_row
    IN /\ clone.id_ \notin ExistingIds
       /\ clone.id_ # original.id_
       /\ clone.owner_id = original.owner_id
       /\ clone.name = original.name
       /\ clone.workspace_path = original.workspace_path
       /\ clone.run_number = original.run_number
       /\ clone_db.clone_spec = specification
       /\ clone_result = "clone" =>
             clone_db.clone_rules =
                get_workspace_retention_rules(specification.retention).rules
       /\ clone_db.original_row = original

\* C23 as stated: the clone has a fresh identity, the original's owner, name,
\* workspace path and run number, and the override specification whenever
\* one is supplied (the original's otherwise); its rules are derived from
\* that specification and the original's own fields are unchanged.
C23_Original ==
    clone_db.clone_exists =>
        CloneIs(IF clone_in.reana_spec.kind # "none"
                THEN clone_in.reana_spec ELSE clone_in.original)

\* C23 amended: as stated, except that the clone carries the override
\* specification only when a non-empty one is supplied; with no override or
\* an empty one it carries the original's.
C23_CloneFields ==
    clone_db.clone_exists =>
        CloneIs(IF clone_in.reana_spec.kind = "doc"
                THEN clone_in.reana_spec ELSE clone_in.original)

\* C23 witness: a restart with a new specification and a new workflow type
\* succeeded for an original that declares retention days of its own.
C23_Witness ==
    /\ clone_result = "clone"
    /\ clone_in.reana_spec.kind = "doc"
    /\ clone_in.reana_spec.retention.present
    /\ clone_in.original.retention.present
    /\ clone_in.reana_spec.retention # clone_in.original.retention
    /\ clone_in.restart_type # NoValue
    /\ clone_db.clone_row.id_ = "n1"

\* The declared inputs as they were in the workspace before the call: every
\* declared path with what lies below it and the directories above it.
DeclaredInputs ==
    LET declared == {filter_in.files[i] : i \in 1..Len(filter_in.files)} \cup
                    {filter_in.directories[i] : i \in 1..Len(filter_in.directories)}
    IN {n \in filter_in.workspace :
           \E p \in declared : IsPrefix(p, n.path) \/ IsPrefix(n.path, p)}

\* C24: a call of filter_input_files ends in one of two ways: it raises and
\* the workspace holds exactly what it held before, or it returns and the
\* workspace holds exactly the declared input files and directories, with
\* no filtered-* directory left; a missing declared input is rejected with
\* the workspace untouched.
C24_RaisesUntouchedOrFiltered ==
    filter_result # NoValue =>
        \/ /\ filter_result # "returned"
           /\ workspace = filter_in.workspace
        \/ /\ filter_result = "returned"
           /\ workspace = DeclaredInputs
           /\ ~Exists(workspace, Filtered)

====
